---- MODULE Spec2Model ----
(***************************************************************************)
(* A model of core/mentonlang.py: the line normalizer, the register table, *)
(* the numeral decoder, the block indexer (index_blocks) and the           *)
(* interpreter (Interpreter.__init__, Interpreter.run,                     *)
(* Interpreter._exec_output_block) driven by main.                         *)
(*                                                                         *)
(* Text.  A Python str is a sequence of characters; every character is a   *)
(* TLA+ string.  The Hangul syllables of the source are written in         *)
(* romanised form ("hwo", "jjit", ...).  A keyword phrase of the language  *)
(* (TOK_SET, TOK_IF, CMP_GT, ...) is one atomic character named after the  *)
(* constant that holds it: no keyword of the source is a prefix of another *)
(* keyword, of a register token or of a numeral, so startswith and == on   *)
(* the phrases are startswith and == on these atoms.                       *)
(*                                                                         *)
(* Optional[int] is a sequence of length 0 (None) or 1 (the value).        *)
(* A dict is a sequence of <<key, value>> pairs in insertion order.        *)
(*                                                                         *)
(* Specifications.  Spec runs main on a program; CountdownSpec runs it on  *)
(* the countdown programs, with fairness.  ParseSpec calls                 *)
(* parse_number_or_none and parse_laugh_number on a string, EncodeSpec     *)
(* calls parse_laugh_number on the laugh-numbers written for an integer,   *)
(* and RegisterSpec calls is_register_token on a string.  An integer of    *)
(* Python has no width; the strings are chosen so that every value stays   *)
(* below 2**31.                                                            *)
(***************************************************************************)
EXTENDS Integers, Sequences, FiniteSets, TLC

VARIABLES
    lines,          \* main: the program, src.splitlines()
    pc,             \* position in main: "start", "constructed", "running", "returned",
                    \* "written" (main returned 0), "error" (an exception left main);
                    \* where a single function is called: "input" before the call,
                    \* and the function's name once it returned
    index,          \* Interpreter.index, the ProgramIndex
    regs,           \* Interpreter.regs
    cur_idx,        \* Interpreter.cur_idx
    output_chunks,  \* Interpreter.output_chunks
    ip,             \* the local ip of Interpreter.run
    err,            \* the exception that ended the run, None if there is none
    out,            \* main: the value run returned
    stdout,         \* what main has written to sys.stdout, one entry per write
    trace,          \* history: the ips run has dispatched on, in order
    arg,            \* the string a parser or the register lookup is called with
    num,            \* the integer a laugh number is to be written for
    ret,            \* what the function called returned, None if it returned None
    calls           \* history: the functions entered by the call, in order

vars == <<lines, pc, index, regs, cur_idx, output_chunks, ip, err, out, stdout, trace,
          arg, num, ret, calls>>

\* the variables of the calls of single functions
call_vars == <<arg, num, ret, calls>>
\* the variables of main and the interpreter, except pc
interp_vars == <<lines, index, regs, cur_idx, output_chunks, ip, err, out, stdout, trace>>

----------------------------------------------------------------------------
(* Bounds of the model *)

\* longest program over the whole statement alphabet
MaxLen == 3
\* longest program over the control-flow alphabet
MaxCtlLen == 5
\* largest start value of the countdown programs
MaxN == 5
\* a run is explored for at most MaxSteps dispatches of its loop: enough for
\* the longest countdown program to finish
MaxSteps == 4 * MaxN + 6

----------------------------------------------------------------------------
(* Optional values and dicts *)

None == << >>
Some(v) == << v >>

DictKeys(d) == { d[i][1] : i \in DOMAIN d }
DictHas(d, k) == \E i \in DOMAIN d : d[i][1] = k
\* d.get(k): the value stored under k, None when there is none
DictGet(d, k) ==
    IF DictHas(d, k) THEN Some(d[CHOOSE i \in DOMAIN d : d[i][1] = k][2]) ELSE None
\* d[k] = v: replaces the value in place, or appends a new pair
DictSet(d, k, v) ==
    IF DictHas(d, k)
    THEN [i \in DOMAIN d |-> IF d[i][1] = k THEN <<k, v>> ELSE d[i]]
    ELSE Append(d, <<k, v>>)

----------------------------------------------------------------------------
(* Config / Tokens *)

NAMED_REGS ==
    << <<"men", "ttong">>,
       <<"bae", "teol">>,
       <<"jeong", "ppang">>,
       <<"ae", "peul", "ri", "peu", "teu">>,
       <<"kkae", "mu", "i">>,
       <<"hyeok", "du">>,
       <<"teok", "sal", "gae", "gu", "ri">>,
       <<"ing", "jin", "i">>,
       <<"min", "jja", "i">> >>

REG_BASE == <<"men", "ppang", "kkae", "teol", "du", "deol", "ae">>
REGTOK_GLUE == <<"ga">>

TOK_SET == <<"TOK_SET">>
TOK_RESET == <<"TOK_RESET">>
TOK_ADD == <<"TOK_ADD">>
TOK_SUB == <<"TOK_SUB">>
TOK_MUL == <<"TOK_MUL">>
TOK_IF == <<"TOK_IF">>
TOK_WHILE == <<"TOK_WHILE">>
TOK_END == <<"TOK_END">>
TOK_ELSE == <<"TOK_ELSE">>
CMP_GT == <<"CMP_GT">>
CMP_LT == <<"CMP_LT">>
TOK_PRINT_START == <<"TOK_PRINT_START">>
TOK_PRINT_NUM_END == <<"TOK_PRINT_NUM_END">>
TOK_PRINT_CHAR_END == <<"TOK_PRINT_CHAR_END">>
TOK_OUT_SPACE == <<"~">>
TOK_OUT_NEWLINE == <<"ui", "?", "!">>

NEG_LAUGH == <<"mwo", "kko">>
T_I == "hwo"
T_X == "hwot"
T_C == "heo"
T_M == "heot"
T_FIVE_PREFIX == <<"hwo", "reo">>
T_GROUP_ZERO == "jjit"

----------------------------------------------------------------------------
(* str helpers *)

Whitespace == {" ", "\t"}

StartsWith(s, p) == Len(s) >= Len(p) /\ SubSeq(s, 1, Len(p)) = p
\* s.startswith(p, i) with the 0-based offset i
StartsWithAt(s, p, i) ==
    i + Len(p) <= Len(s) /\ SubSeq(s, i + 1, i + Len(p)) = p

RECURSIVE LStrip(_)
LStrip(s) == IF s # << >> /\ Head(s) \in Whitespace THEN LStrip(Tail(s)) ELSE s

RECURSIVE RStrip(_)
RStrip(s) ==
    IF s # << >> /\ s[Len(s)] \in Whitespace THEN RStrip(SubSeq(s, 1, Len(s) - 1)) ELSE s

\* s.strip()
Strip(s) == RStrip(LStrip(s))

\* s.split(): the maximal runs of non-whitespace characters
RECURSIVE SplitFrom(_, _, _)
SplitFrom(s, cur, acc) ==
    IF s = << >>
    THEN IF cur = << >> THEN acc ELSE Append(acc, cur)
    ELSE IF Head(s) \in Whitespace
         THEN SplitFrom(Tail(s), << >>, IF cur = << >> THEN acc ELSE Append(acc, cur))
         ELSE SplitFrom(Tail(s), Append(cur, Head(s)), acc)
Split(s) == SplitFrom(s, << >>, << >>)

\* raw.split("#", 1)[0]: the text before the first "#"
RECURSIVE BeforeHash(_)
BeforeHash(s) ==
    IF s = << >> \/ Head(s) = "#" THEN << >> ELSE <<Head(s)>> \o BeforeHash(Tail(s))

clean_line(raw) == Strip(BeforeHash(raw))

RECURSIVE Concat(_)
\* "".join(chunks)
Concat(chunks) == IF chunks = << >> THEN << >> ELSE Head(chunks) \o Concat(Tail(chunks))

----------------------------------------------------------------------------
(* Helpers: register parsing *)

\* the patterned tokens, in the order of the two nested loops
PatternedTokens ==
    [k \in 1..(Len(REG_BASE) * Len(REG_BASE)) |->
        <<REG_BASE[((k - 1) \div Len(REG_BASE)) + 1]>> \o REGTOK_GLUE
        \o <<REG_BASE[((k - 1) % Len(REG_BASE)) + 1]>> \o REGTOK_GLUE]

\* the first loop: a name already present is skipped, idx counts the names kept;
\* the assignments reg_to_idx[name] = idx it makes, in order
NamedAssignments ==
    LET kept == { i \in DOMAIN NAMED_REGS :
                    \A j \in 1..(i - 1) : NAMED_REGS[j] # NAMED_REGS[i] }
        idx(i) == Cardinality({ j \in kept : j < i })
    IN  [k \in 1..Cardinality(kept) |->
            LET i == CHOOSE i \in kept : idx(i) = k - 1 IN <<NAMED_REGS[i], k - 1>>]

\* a second loop that numbers the patterned tokens from 0
PatternedAssignmentsFromZero(first) ==
    [k \in DOMAIN PatternedTokens |-> <<PatternedTokens[k], k - 1>>]

\* the second loop: reg_to_idx[token] = idx; idx += 1, from idx = first
PatternedAssignments(first) ==
    [k \in DOMAIN PatternedTokens |-> <<PatternedTokens[k], first + (k - 1)>>]

\* the dict a sequence of assignments d[key] = value builds: the keys in the order
\* of their first assignment, each with the value of its last assignment
DictOf(assigns) ==
    LET firsts == { i \in DOMAIN assigns :
                      \A j \in 1..(i - 1) : assigns[j][1] # assigns[i][1] }
        rank(i) == Cardinality({ j \in firsts : j <= i })
        last(key) == CHOOSE i \in DOMAIN assigns :
                        /\ assigns[i][1] = key
                        /\ \A j \in (i + 1)..Len(assigns) : assigns[j][1] # key
    IN  [k \in 1..Cardinality(firsts) |->
            LET i == CHOOSE i \in firsts : rank(i) = k
            IN  <<assigns[i][1], assigns[last(assigns[i][1])][2]>>]

\* the assignments idx_to_reg[idx] = token made along with reg_to_idx[token] = idx
IdxAssignments(assigns) == [k \in DOMAIN assigns |-> <<assigns[k][2], assigns[k][1]>>]

\* build_register_set: raised when the names kept are not 9 (RuntimeError), else
\* reg_to_idx and idx_to_reg are the dicts returned
build_register_set ==
    IF Len(NamedAssignments) # 9
    THEN [raised |-> TRUE, reg_to_idx |-> << >>, idx_to_reg |-> << >>]
    ELSE [raised |-> FALSE,
          reg_to_idx |-> DictOf(NamedAssignments
                                \o PatternedAssignments(Len(NamedAssignments))),
          idx_to_reg |-> DictOf(IdxAssignments(NamedAssignments
                                \o PatternedAssignments(Len(NamedAssignments))))]

REG_TO_IDX == build_register_set.reg_to_idx
IDX_TO_REG == build_register_set.idx_to_reg

is_register_token(line) == DictHas(REG_TO_IDX, Strip(line))
RegIdx(tok) == DictGet(REG_TO_IDX, tok)[1]

----------------------------------------------------------------------------
(* Helpers: number parsing *)

Digits == {"0", "1", "2", "3", "4", "5", "6", "7", "8", "9"}
DigitChars == <<"0", "1", "2", "3", "4", "5", "6", "7", "8", "9">>
DigitVal(c) == CHOOSE d \in 0..9 : DigitChars[d + 1] = c

\* the literal int() accepts once the sign is taken off: decimal digits, with
\* single underscores allowed between two digits
IsDecimalBody(b) ==
    /\ b # << >>
    /\ \A i \in DOMAIN b : b[i] \in Digits \cup {"_"}
    /\ b[1] # "_"
    /\ b[Len(b)] # "_"
    /\ \A i \in 1..(Len(b) - 1) : ~(b[i] = "_" /\ b[i + 1] = "_")

RECURSIVE DecimalValue(_, _)
DecimalValue(b, acc) ==
    IF b = << >> THEN acc
    ELSE DecimalValue(Tail(b), IF Head(b) = "_" THEN acc ELSE 10 * acc + DigitVal(Head(b)))

\* int(s) of the stripped, non-empty s whose literal without the sign is body
IntOf(s, body) ==
    IF ~IsDecimalBody(body) THEN None    \* int(s) raises ValueError
    ELSE IF Head(s) = "-" THEN Some(0 - DecimalValue(body, 0))
    ELSE Some(DecimalValue(body, 0))

\* a parse_arabic_int that takes no sign
ArabicOfUnsigned(s) ==
    IF s = << >> THEN None ELSE IntOf(<<"+">> \o s, s)

\* parse_arabic_int after s = s.strip()
ArabicOf(s) ==
    IF s = << >> THEN None
    ELSE IntOf(s, IF Head(s) \in {"+", "-"} THEN Tail(s) ELSE s)

parse_arabic_int(s) == ArabicOf(Strip(s))

place_tokens == {T_I, T_X, T_C, T_M}

\* the inner loop: the number of consecutive characters equal to place from 0-based i
RECURSIVE RunLength(_, _, _)
RunLength(raw, i, place) ==
    IF i < Len(raw) /\ raw[i + 1] = place THEN 1 + RunLength(raw, i + 1, place) ELSE 0

\* the digit of a run of cnt place tokens, None when cnt is out of range
DigitOf(has_five, cnt) ==
    IF has_five
    THEN IF 1 <= cnt /\ cnt <= 4 THEN Some(5 + cnt) ELSE None
    ELSE IF 1 <= cnt /\ cnt <= 5 THEN Some(cnt) ELSE None

\* the tokenizer loop of parse_laugh_number from 0-based position i: Some(items),
\* or None where the function returns None
RECURSIVE Tokenize(_, _, _)

\* ... the run of cnt tokens place from 0-based j gives digit
TokenizeRun(raw, j, items, place, cnt, digit) ==
    IF digit = None THEN None
    ELSE Tokenize(raw, j + cnt, Append(items, <<place, digit[1]>>))

\* ... the place token at 0-based j, after the five-bump prefix if has_five
TokenizePlace(raw, j, items, has_five) ==
    IF j >= Len(raw) THEN None
    ELSE IF raw[j + 1] \notin place_tokens THEN None
    ELSE TokenizeRun(raw, j, items, raw[j + 1], RunLength(raw, j, raw[j + 1]),
                     DigitOf(has_five, RunLength(raw, j, raw[j + 1])))

Tokenize(raw, i, items) ==
    IF i >= Len(raw) THEN Some(items)
    ELSE IF raw[i + 1] = T_GROUP_ZERO THEN Tokenize(raw, i + 1, Append(items, <<"ZZ", 0>>))
    ELSE IF StartsWithAt(raw, T_FIVE_PREFIX, i)
         THEN TokenizePlace(raw, i + Len(T_FIVE_PREFIX), items, TRUE)
         ELSE TokenizePlace(raw, i, items, FALSE)

token_for_power(k) ==
    IF k % 4 = 0 THEN T_I ELSE IF k % 4 = 1 THEN T_X ELSE IF k % 4 = 2 THEN T_C ELSE T_M

RECURSIVE Pow10(_)
Pow10(k) == IF k = 0 THEN 1 ELSE 10 * Pow10(k - 1)

\* "Skip down until expected token matches p": <<k, skipped_in_group>> after the
\* loop, or None where try_parse returns None inside it
RECURSIVE SkipDown(_, _, _)
SkipDown(k, skipped, p) ==
    IF k >= 0 /\ token_for_power(k) # p
    THEN IF skipped + 1 >= 4 THEN None ELSE SkipDown(k - 1, skipped + 1, p)
    ELSE <<k, skipped>>

\* value, kept as the pairs <<d, k>> of the digits placed so far: the sum of
\* d * 10**k over them
RECURSIVE ValueOf(_)
ValueOf(placed) ==
    IF placed = << >> THEN 0
    ELSE Head(placed)[1] * Pow10(Head(placed)[2]) + ValueOf(Tail(placed))

\* the for loop of try_parse over the items left, from k, the digits placed and
\* skipped_in_group
RECURSIVE TryItems(_, _, _, _)

\* ... an explicit digit d at place p, sk the outcome of skipping down to it
TryPlace(rest, placed, p, d, sk) ==
    IF sk = None THEN None
    ELSE IF sk[1] < 0 \/ token_for_power(sk[1]) # p THEN None
    ELSE TryItems(rest, sk[1] - 1, Append(placed, <<d, sk[1]>>),
                  IF sk[2] + 1 >= 4 THEN 0 ELSE sk[2] + 1)

TryItems(items, k, placed, skipped) ==
    IF items = << >> THEN Some(ValueOf(placed))
    ELSE IF Head(items)[1] = "ZZ"
         THEN IF k - 4 < 0 THEN None ELSE TryItems(Tail(items), k - 4, placed, 0)
         ELSE TryPlace(Tail(items), placed, Head(items)[1], Head(items)[2],
                       SkipDown(k, skipped, Head(items)[1]))

try_parse(items, k0) == TryItems(items, k0, << >>, 0)

\* for m in range(0, max_steps): the first k0 = target_mod + 4*m that parses
RECURSIVE FirstParse(_, _, _, _)
FirstParse(items, target_mod, m, max_steps) ==
    IF m >= max_steps THEN None
    ELSE IF try_parse(items, target_mod + 4 * m) # None
         THEN try_parse(items, target_mod + 4 * m)
         ELSE FirstParse(items, target_mod, m + 1, max_steps)

\* the modulo the first place token anchors
TargetMod(first_place) ==
    IF first_place = T_I THEN 0
    ELSE IF first_place = T_X THEN 1
    ELSE IF first_place = T_C THEN 2 ELSE 3

\* a return that drops the sign
SignedAbs(neg, v) == v

\* return -v if neg else v
Signed(neg, v) == IF v = None THEN None ELSE IF neg THEN Some(0 - v[1]) ELSE v

\* parse_laugh_number once the items are tokenized; places are the indices of
\* the items that are not the zero-group token
LaughItems(neg, items, places) ==
    IF places = {} THEN None    \* only the zero-group token
    ELSE Signed(neg,
                FirstParse(items,
                           TargetMod(items[CHOOSE i \in places : \A j \in places : i <= j][1]),
                           0, Len(items) * 5 + 20))

\* parse_laugh_number after the tokenizer loop
LaughTokens(neg, toks) ==
    IF toks = None THEN None
    ELSE IF toks[1] = << >> THEN None
    ELSE LaughItems(neg, toks[1], { i \in DOMAIN toks[1] : toks[1][i][1] # "ZZ" })

\* parse_laugh_number after the negative prefix is taken off
LaughRaw(neg, raw) ==
    IF raw = << >> THEN None ELSE LaughTokens(neg, Tokenize(raw, 0, << >>))

\* parse_laugh_number after raw = s.strip()
LaughOf(raw) ==
    IF raw = << >> THEN None
    ELSE IF StartsWith(raw, NEG_LAUGH)
         THEN LaughRaw(TRUE, Strip(SubSeq(raw, Len(NEG_LAUGH) + 1, Len(raw))))
         ELSE LaughRaw(FALSE, raw)

parse_laugh_number(s) == LaughOf(Strip(s))

\* v if v is not None, else w
OrElse(v, w) == IF v # None THEN v ELSE w

parse_number_or_none(s) == OrElse(parse_arabic_int(s), parse_laugh_number(s))

----------------------------------------------------------------------------
(* Program indexing (blocks) *)

IfMeta(else_ip, end_ip) == [else_ip |-> else_ip, end_ip |-> end_ip]
WhileMeta(start_ip, end_ip) == [start_ip |-> start_ip, end_ip |-> end_ip]

\* an exception: its class, its message without the numbers, and the 1-based line
\* number the message carries (0 when the message carries none)
SyntaxError(what, line) == [type |-> "SyntaxError", what |-> what, line |-> line]
RuntimeError(what, line) == [type |-> "RuntimeError", what |-> what, line |-> line]

\* the locals of index_blocks before the first line; a stack entry is
\* <<kind, start_ip, else_ip_if_any>>; raised holds the exception once one is raised
IndexStart == [if_map |-> << >>, while_map |-> << >>, stack |-> << >>, raised |-> None]

Top(stack) == stack[Len(stack)]
Pop(stack) == SubSeq(stack, 1, Len(stack) - 1)

\* line.startswith(TOK_IF)
IndexIf(st, ip_) == [st EXCEPT !.stack = Append(st.stack, <<"if", ip_, None>>)]

\* line == TOK_ELSE
IndexElse(st, ip_) ==
    IF st.stack = << >> \/ Top(st.stack)[1] # "if"
    THEN [st EXCEPT !.raised = Some(SyntaxError("ELSE without IF", ip_ + 1))]
    ELSE [st EXCEPT !.stack =
              Append(Pop(st.stack), <<Top(st.stack)[1], Top(st.stack)[2], Some(ip_)>>)]

\* line.startswith(TOK_WHILE)
IndexWhile(st, ip_) == [st EXCEPT !.stack = Append(st.stack, <<"while", ip_, None>>)]

\* IndexClose recording the line after the end line as the end of the block
IndexCloseLate(st, ip_, kind, start_ip, else_ip) ==
    IF kind = "if"
    THEN [st EXCEPT !.stack = Pop(st.stack),
                    !.if_map = DictSet(st.if_map, start_ip, IfMeta(else_ip, ip_ + 1))]
    ELSE [st EXCEPT !.stack = Pop(st.stack),
                    !.while_map = DictSet(st.while_map, start_ip, WhileMeta(start_ip, ip_ + 1))]

\* the block <<kind, start_ip, else_ip>> popped by the end line at ip_
IndexClose(st, ip_, kind, start_ip, else_ip) ==
    IF kind = "if"
    THEN [st EXCEPT !.stack = Pop(st.stack),
                    !.if_map = DictSet(st.if_map, start_ip, IfMeta(else_ip, ip_))]
    ELSE IF kind = "while"
    THEN [st EXCEPT !.stack = Pop(st.stack),
                    !.while_map = DictSet(st.while_map, start_ip, WhileMeta(start_ip, ip_))]
    ELSE [st EXCEPT !.stack = Pop(st.stack),
                    !.raised = Some(SyntaxError("Unknown block kind", ip_ + 1))]

\* line == TOK_END
IndexEnd(st, ip_) ==
    IF st.stack = << >>
    THEN [st EXCEPT !.raised = Some(SyntaxError("END without block", ip_ + 1))]
    ELSE IndexClose(st, ip_, Top(st.stack)[1], Top(st.stack)[2], Top(st.stack)[3])

\* one iteration of the for loop, on the cleaned line at 0-based ip_
IndexLine(line, st, ip_) ==
    IF line = << >> THEN st
    ELSE IF StartsWith(line, TOK_IF) THEN IndexIf(st, ip_)
    ELSE IF line = TOK_ELSE THEN IndexElse(st, ip_)
    ELSE IF StartsWith(line, TOK_WHILE) THEN IndexWhile(st, ip_)
    ELSE IF line = TOK_END THEN IndexEnd(st, ip_)
    ELSE st

\* the loop ends at a raise
IndexNext(prog, st, ip_) ==
    IF st.raised # None THEN st ELSE IndexLine(clean_line(prog[ip_ + 1]), st, ip_)

\* the locals of index_blocks after the first k lines
RECURSIVE IndexScan(_, _)
IndexScan(prog, k) ==
    IF k = 0 THEN IndexStart ELSE IndexNext(prog, IndexScan(prog, k - 1), k - 1)

\* IndexFinish reporting the outermost open block
IndexFinishOutermost(st) ==
    IF st.raised # None THEN st
    ELSE IF st.stack # << >>
         THEN [st EXCEPT !.raised =
                   Some(SyntaxError("Unclosed block " \o st.stack[1][1], st.stack[1][2] + 1))]
         ELSE st

\* after the loop: "if stack: raise", else the ProgramIndex
IndexFinish(st) ==
    IF st.raised # None THEN st
    ELSE IF st.stack # << >>
         THEN [st EXCEPT !.raised =
                   Some(SyntaxError("Unclosed block " \o Top(st.stack)[1],
                                    Top(st.stack)[2] + 1))]
         ELSE st

\* index_blocks(lines): raised is the exception, if_map and while_map the result
index_blocks(prog) == IndexFinish(IndexScan(prog, Len(prog)))

ProgramIndex(if_map, while_map) == [if_map |-> if_map, while_map |-> while_map]

----------------------------------------------------------------------------
(* Condition parsing/evaluation *)

\* what parse_condition gives: raised is the SyntaxError, else n and op the result
Condition(n, op) == [raised |-> None, n |-> n, op |-> op]
BadCondition(what) == [raised |-> Some(SyntaxError(what, 0)), n |-> 0, op |-> "=="]

\* parse_condition once parts[1] is decoded to n
ConditionOp(parts, n) ==
    IF n = None THEN BadCondition("Invalid number in condition")
    ELSE IF Len(parts) >= 3
         THEN IF parts[3] = CMP_GT THEN Condition(n[1], ">")
              ELSE IF parts[3] = CMP_LT THEN Condition(n[1], "<")
              ELSE BadCondition("Unknown comparator")
         ELSE Condition(n[1], "==")

\* parse_condition after parts = line.strip().split()
ConditionOf(parts) ==
    IF Len(parts) < 2 THEN BadCondition("Missing number in condition")
    ELSE ConditionOp(parts, parse_number_or_none(parts[2]))

parse_condition(line) == ConditionOf(Split(Strip(line)))

\* eval_condition with >= in the place of >
eval_condition_geq(cur, n, op) ==
    IF op = "==" THEN cur = n
    ELSE IF op = ">" THEN cur >= n
    ELSE cur < n

eval_condition(cur, n, op) ==
    IF op = "==" THEN cur = n
    ELSE IF op = ">" THEN cur > n
    ELSE cur < n

----------------------------------------------------------------------------
(* str(v) and chr(c) *)

RECURSIVE NatStr(_)
NatStr(n) == IF n < 10 THEN <<DigitChars[n + 1]>> ELSE NatStr(n \div 10) \o <<DigitChars[(n % 10) + 1]>>

\* str(v) of an int
Str(v) == IF v < 0 THEN <<"-">> \o NatStr(0 - v) ELSE NatStr(v)

\* the printable ASCII characters, chr(32) .. chr(126); a character that cannot be
\* written in a TLA+ string is named by its code ("chr96", the grave accent)
Printable ==
    <<
       " ", "!", "\"", "#", "$", "%", "&", "'", "(", ")", "*", "+", ",", "-", ".", "/",
       "0", "1", "2", "3", "4", "5", "6", "7", "8", "9", ":", ";", "<", "=", ">", "?",
       "@", "A", "B", "C", "D", "E", "F", "G", "H", "I", "J", "K", "L", "M", "N", "O",
       "P", "Q", "R", "S", "T", "U", "V", "W", "X", "Y", "Z", "[", "\\", "]", "^", "_",
       "chr96", "a", "b", "c", "d", "e", "f", "g", "h", "i", "j", "k", "l", "m", "n", "o",
       "p", "q", "r", "s", "t", "u", "v", "w", "x", "y", "z", "{", "|", "}", "~"
    >>

\* chr(c) for c in 0..255, as a str of one character
Chr(c) ==
    IF c >= 32 /\ c <= 126 THEN <<Printable[c - 31]>>
    ELSE IF c = 10 THEN <<"\n">>
    ELSE IF c = 9 THEN <<"\t">>
    ELSE <<"chr" \o ToString(c)>>

----------------------------------------------------------------------------
(* Interpreter._exec_output_block *)

\* the scanning loop from 0-based j: the items collected, the terminator
\* found (None at the end of the program) and the ip the loop stops at
RECURSIVE ScanBlock(_, _, _)

\* ... on the cleaned line at j
ScanLine(prog, j, content, line) ==
    IF line = << >> THEN ScanBlock(prog, j + 1, content)
    ELSE IF line = TOK_PRINT_NUM_END \/ line = TOK_PRINT_CHAR_END
         THEN [content |-> content, terminator |-> Some(line), ip |-> j]
         ELSE ScanBlock(prog, j + 1, Append(content, line))

ScanBlock(prog, j, content) ==
    IF j >= Len(prog) THEN [content |-> content, terminator |-> None, ip |-> j]
    ELSE ScanLine(prog, j, content, clean_line(prog[j + 1]))

\* a chunk put in front of the others
PrependChunk(chunks, c) == <<c>> \o chunks

\* self.output_chunks.append(c)
AppendChunk(chunks, c) == Append(chunks, c)

\* what the loop over the items gives: the chunks after it and the SyntaxError
\* that ended it, if any
Emitted(chunks, raised) == [chunks |-> chunks, raised |-> raised]

\* the value of a numeric-mode item: a register's value, else the numeral
NumericItem(item, rs) ==
    IF DictHas(REG_TO_IDX, item) THEN Some(rs[RegIdx(item)]) ELSE parse_number_or_none(item)

\* the loop of the numeric mode over the items left; at is the terminator's ip
RECURSIVE EmitNumeric(_, _, _, _)

\* ... an item that is no shortcut, v its value
EmitNumber(rest, chunks, rs, at, v) ==
    IF v = None
    THEN Emitted(chunks,
                 Some(SyntaxError("Invalid number/register in numeric output", at + 1)))
    ELSE EmitNumeric(rest, AppendChunk(chunks, Str(v[1])), rs, at)

EmitNumeric(content, chunks, rs, at) ==
    IF content = << >> THEN Emitted(chunks, None)
    ELSE IF Head(content) = TOK_OUT_SPACE
         THEN EmitNumeric(Tail(content), AppendChunk(chunks, <<" ">>), rs, at)
    ELSE IF Head(content) = TOK_OUT_NEWLINE
         THEN EmitNumeric(Tail(content), AppendChunk(chunks, <<"\n">>), rs, at)
    ELSE EmitNumber(Tail(content), chunks, rs, at, NumericItem(Head(content), rs))

\* the loop of the character mode over the items left
RECURSIVE EmitChars(_, _, _)

\* a character mode that does not reduce the value to a byte
EmitCharUnwrapped(rest, chunks, at, v) ==
    IF v = None
    THEN Emitted(chunks,
                 Some(SyntaxError("Invalid number in ASCII output (register not allowed)",
                                  at + 1)))
    ELSE EmitChars(rest, AppendChunk(chunks, Chr(v[1])), at)

\* ... an item that is no shortcut, v its value
EmitChar(rest, chunks, at, v) ==
    IF v = None
    THEN Emitted(chunks,
                 Some(SyntaxError("Invalid number in ASCII output (register not allowed)",
                                  at + 1)))
    ELSE EmitChars(rest, AppendChunk(chunks, Chr(v[1] % 256)), at)

EmitChars(content, chunks, at) ==
    IF content = << >> THEN Emitted(chunks, None)
    ELSE IF Head(content) = TOK_OUT_SPACE
         THEN EmitChars(Tail(content), AppendChunk(chunks, <<" ">>), at)
    ELSE IF Head(content) = TOK_OUT_NEWLINE
         THEN EmitChars(Tail(content), AppendChunk(chunks, <<"\n">>), at)
    ELSE EmitChar(Tail(content), chunks, at, parse_number_or_none(Head(content)))

\* a return at the terminator line itself
BlockReturnAt(term_ip) == term_ip

\* the ip _exec_output_block returns: the one after the terminator line
BlockReturn(term_ip) == term_ip + 1

\* what _exec_output_block gives: the chunks after it, the SyntaxError it raised
\* if any, and the ip it returns
BlockResult(res, resume) == [chunks |-> res.chunks, raised |-> res.raised, ip |-> resume]

Unterminated(start_ip, chunks) ==
    BlockResult(Emitted(chunks, Some(SyntaxError("Unterminated output block", start_ip + 1))),
                start_ip)

\* _exec_output_block after the scanning loop
EmitBlock(start_ip, chunks, rs, scan) ==
    IF scan.terminator = None THEN Unterminated(start_ip, chunks)
    ELSE IF scan.terminator = Some(TOK_PRINT_NUM_END)
         THEN BlockResult(EmitNumeric(scan.content, chunks, rs, scan.ip), BlockReturn(scan.ip))
         ELSE BlockResult(EmitChars(scan.content, chunks, scan.ip), BlockReturn(scan.ip))

\* _exec_output_block(start_ip) on the chunks and registers given
exec_output_block(prog, start_ip, chunks, rs) ==
    IF start_ip + 1 >= Len(prog) THEN Unterminated(start_ip, chunks)
    ELSE EmitBlock(start_ip, chunks, rs, ScanBlock(prog, start_ip + 1, << >>))

----------------------------------------------------------------------------
(* Programs *)

Range(f) == { f[i] : i \in DOMAIN f }
SeqsUpTo(S, n) == UNION { [1..k -> S] : k \in 0..n }

Sp == <<" ">>
MENTTONG == NAMED_REGS[1]
BAETEOL == NAMED_REGS[2]

\* the lines of the whole statement alphabet: one or two of every statement
\* form and the output items
FullAlphabet ==
    { <<" ", "#">> \o TOK_END,                   \* a comment: empty once cleaned
      BAETEOL,                                    \* register selection
      TOK_PRINT_START,
      TOK_PRINT_NUM_END,
      TOK_PRINT_CHAR_END,
      TOK_IF \o Sp \o <<"0">>,
      TOK_ELSE,
      TOK_END,
      TOK_WHILE \o Sp \o <<"0">> \o Sp \o CMP_GT,
      TOK_SET \o Sp \o <<"2">>,
      TOK_RESET,
      TOK_ADD,
      TOK_SUB \o Sp \o <<T_X, T_I>>,              \* sub 11, as a laugh-number
      TOK_MUL \o Sp \o BAETEOL,
      TOK_MUL \o Sp \o <<"-", "3">>,
      TOK_OUT_SPACE,
      <<"7", "2">> }

\* the lines of the control-flow alphabet
CtlAlphabet ==
    { TOK_IF \o Sp \o <<"0">>,
      TOK_ELSE,
      TOK_END,
      TOK_WHILE \o Sp \o <<"0">> \o Sp \o CMP_GT,
      TOK_ADD,
      TOK_SUB }

\* the separators of the countdown programs: none, a space, a newline
Separators == { << >>, <<TOK_OUT_SPACE>>, <<TOK_OUT_NEWLINE>> }

\* set n; while > 0; output block of the current register and sep; sub 1; end
Countdown(n, sep) ==
    << TOK_SET \o Sp \o Str(n),
       TOK_WHILE \o Sp \o <<"0">> \o Sp \o CMP_GT,
       TOK_PRINT_START,
       MENTTONG >>
    \o sep \o
    << TOK_PRINT_NUM_END,
       TOK_SUB \o Sp \o <<"1">>,
       TOK_END >>

CountdownPrograms == { Countdown(n, sep) : n \in 0..MaxN, sep \in Separators }

FullPrograms == SeqsUpTo(FullAlphabet, MaxLen)
CtlPrograms == SeqsUpTo(CtlAlphabet, MaxCtlLen)

\* most items of a character block program
MaxItems == 2

\* the items of the character block programs: numerals above 255, below 0 and
\* written as a laugh-number, a register token and a shortcut
CharItems ==
    { <<"7", "2">>,
      <<"3", "0", "0">>,
      <<"-", "3">>,
      <<T_X, T_I>>,
      BAETEOL,
      TOK_OUT_NEWLINE }

\* output blocks in character mode
CharPrograms ==
    { <<TOK_PRINT_START>> \o items \o <<TOK_PRINT_CHAR_END>> :
        items \in SeqsUpTo(CharItems, MaxItems) }

\* a first line, then if 0 with a statement in each branch
BranchPrograms ==
    { << pre, TOK_IF \o Sp \o <<"0">>, a, TOK_ELSE, b, TOK_END >> :
        pre \in { << >>, TOK_ADD }, a \in { TOK_ADD, TOK_SUB }, b \in { TOK_ADD, TOK_SUB } }

\* the ends of the late-error programs: a line that opens, closes or splits a
\* block that is not there, a statement with a malformed operand, a condition
\* without number, and the first register selected before a line that is no
\* statement
LateErrors ==
    { << TOK_IF \o Sp \o <<"0">> >>,
      << TOK_WHILE \o Sp \o <<"0">> >>,
      << TOK_ELSE >>,
      << TOK_END >>,
      << TOK_SET \o Sp \o <<"x">> >>,
      << TOK_ADD \o Sp \o <<"x">> >>,
      << TOK_SUB \o Sp \o <<"x">> >>,
      << TOK_MUL >>,
      << TOK_MUL \o Sp \o <<"x">> >>,
      << TOK_IF, TOK_END >>,
      << TOK_WHILE \o Sp \o <<"0">> \o Sp \o <<"x">>, TOK_END >>,
      << MENTTONG, <<"x">> >> }

\* an output block and a statement, then lines that fail
LateErrorPrograms ==
    { << TOK_PRINT_START, <<"7", "2">>, TOK_PRINT_NUM_END, TOK_SET \o Sp \o <<"2">> >> \o tail :
        tail \in LateErrors }

----------------------------------------------------------------------------
(* main and the Interpreter *)

\* the state of main before Interpreter(lines): the module is imported, so
\* build_register_set has returned the register table, and no interpreter exists yet
InitWith(progs) ==
    /\ ~build_register_set.raised
    /\ lines \in progs
    /\ pc = "start"
    /\ index = ProgramIndex(<< >>, << >>)
    /\ regs = << >>
    /\ cur_idx = 0
    /\ output_chunks = << >>
    /\ ip = 0
    /\ err = None
    /\ out = << >>
    /\ stdout = << >>
    /\ trace = << >>
    /\ arg = << >>
    /\ num = 0
    /\ ret = << >>
    /\ calls = << >>

\* the program is any of the full, control-flow, countdown, branch, late-error
\* and character block programs
Init ==
    \/ InitWith(FullPrograms)
    \/ InitWith(CtlPrograms)
    \/ InitWith(CountdownPrograms)
    \/ InitWith(BranchPrograms)
    \/ InitWith(LateErrorPrograms)
    \/ InitWith(CharPrograms)

\* an __init__ that keeps what index_blocks had gathered when it raised
ConstructUnchecked ==
    /\ pc = "start"
    /\ pc' = "constructed"
    /\ index' = ProgramIndex(index_blocks(lines).if_map, index_blocks(lines).while_map)
    /\ regs' = [i \in 0..(Len(REG_TO_IDX) - 1) |-> 0]
    /\ cur_idx' = RegIdx(MENTTONG)
    /\ output_chunks' = << >>
    /\ UNCHANGED <<call_vars, lines, ip, err, out, stdout, trace>>

\* Interpreter.__init__, called by main
Construct ==
    /\ pc = "start"
    /\ LET r == index_blocks(lines)
       IN  IF r.raised # None
           THEN /\ pc' = "error"
                /\ err' = r.raised
                /\ UNCHANGED <<index, regs, cur_idx, output_chunks>>
           ELSE /\ pc' = "constructed"
                /\ index' = ProgramIndex(r.if_map, r.while_map)
                /\ regs' = [i \in 0..(Len(REG_TO_IDX) - 1) |-> 0]
                /\ cur_idx' = RegIdx(MENTTONG)
                /\ output_chunks' = << >>
                /\ err' = err
    /\ UNCHANGED <<call_vars, lines, ip, out, stdout, trace>>

\* interp.run() is entered: ip = 0
RunEnter ==
    /\ pc = "constructed"
    /\ pc' = "running"
    /\ ip' = 0
    /\ UNCHANGED <<call_vars, lines, index, regs, cur_idx, output_chunks, err, out, stdout, trace>>

cur_value(rs, idx) == rs[idx]
\* a set_cur_value that writes the first register
set_first_value(rs, idx, v) == [rs EXCEPT ![0] = v]
set_cur_value(rs, idx, v) == [rs EXCEPT ![idx] = v]

\* the branch of the loop body of run that a cleaned line takes
Dispatch(line) ==
    IF line = << >> THEN "empty"
    ELSE IF is_register_token(line) THEN "register"
    ELSE IF line = TOK_PRINT_START THEN "print"
    ELSE IF StartsWith(line, TOK_IF) THEN "if"
    ELSE IF line = TOK_ELSE THEN "else"
    ELSE IF StartsWith(line, TOK_WHILE) THEN "while"
    ELSE IF line = TOK_END THEN "end"
    ELSE IF StartsWith(line, TOK_SET) THEN "set"
    ELSE IF line = TOK_RESET THEN "reset"
    ELSE IF StartsWith(line, TOK_ADD) THEN "add"
    ELSE IF StartsWith(line, TOK_SUB) THEN "sub"
    ELSE IF StartsWith(line, TOK_MUL) THEN "mul"
    ELSE "unknown"

\* line = clean_line(self.lines[ip])
CurLine == clean_line(lines[ip + 1])

\* the loop of run is at the line at ip, which takes the branch given
At(branch) ==
    /\ pc = "running"
    /\ ip < Len(lines)
    /\ Len(trace) < MaxSteps
    /\ Dispatch(CurLine) = branch

\* the loop continues at ip n
Goto(n) ==
    /\ ip' = n
    /\ trace' = Append(trace, ip)
    /\ UNCHANGED <<call_vars, lines, pc, index, err, out, stdout>>

\* an exception leaves run, and main
Raise(e) ==
    /\ pc' = "error"
    /\ err' = Some(e)
    /\ trace' = Append(trace, ip)
    /\ UNCHANGED <<call_vars, lines, index, ip, out, stdout>>

\* if not line
ExecEmpty ==
    /\ At("empty")
    /\ Goto(ip + 1)
    /\ UNCHANGED <<regs, cur_idx, output_chunks>>

\* if is_register_token(line)
ExecRegister ==
    /\ At("register")
    /\ cur_idx' = RegIdx(CurLine)
    /\ Goto(ip + 1)
    /\ UNCHANGED <<regs, output_chunks>>

\* ip = self._exec_output_block(ip), r what the call gives
PrintStep(r) ==
    /\ output_chunks' = r.chunks
    /\ IF r.raised # None THEN Raise(r.raised[1]) ELSE Goto(r.ip)

\* if line == TOK_PRINT_START
ExecPrint ==
    /\ At("print")
    /\ PrintStep(exec_output_block(lines, ip, output_chunks, regs))
    /\ UNCHANGED <<regs, cur_idx>>

\* the target of an if whose condition is false
IfFalseTarget(meta) ==
    IF meta.else_ip # None THEN meta.else_ip[1] + 1 ELSE meta.end_ip + 1

\* the body of the if branch, c the condition parsed and meta if_map.get(ip)
IfStep(c, meta) ==
    IF c.raised # None THEN Raise(c.raised[1])
    ELSE IF meta = None THEN Raise(RuntimeError("Missing IF meta", ip + 1))
    ELSE IF eval_condition(cur_value(regs, cur_idx), c.n, c.op) THEN Goto(ip + 1)
    ELSE Goto(IfFalseTarget(meta[1]))

\* if line.startswith(TOK_IF)
ExecIf ==
    /\ At("if")
    /\ IfStep(parse_condition(CurLine), DictGet(index.if_map, ip))
    /\ UNCHANGED <<regs, cur_idx, output_chunks>>

\* the entries of if_map whose else_ip is at
ElseHits(if_map, at) == { i \in DOMAIN if_map : if_map[i][2].else_ip = Some(at) }

\* the loop over if_map.items(): the first meta whose else_ip is at, or None
ElseOwner(if_map, at) ==
    IF ElseHits(if_map, at) = {} THEN None
    ELSE Some(if_map[CHOOSE i \in ElseHits(if_map, at) :
                        \A j \in ElseHits(if_map, at) : i <= j][2])

\* a bare else line that falls through into the lines after it
ElseTargetFallThrough(owner_if) == owner_if.else_ip[1] + 1

\* the target of a bare else line
ElseTarget(owner_if) == owner_if.end_ip + 1

\* the body of the else branch, owner_if the meta found
ElseStep(owner_if) ==
    IF owner_if = None THEN Raise(RuntimeError("ELSE meta not found", ip + 1))
    ELSE Goto(ElseTarget(owner_if[1]))

\* if line == TOK_ELSE
ExecElse ==
    /\ At("else")
    /\ ElseStep(ElseOwner(index.if_map, ip))
    /\ UNCHANGED <<regs, cur_idx, output_chunks>>

\* a false while that skips the line after its end line too
WhileFalseTargetPast(meta) == meta.end_ip + 2

\* the target of a while whose condition is false
WhileFalseTarget(meta) == meta.end_ip + 1

\* the body of the while branch, c the condition parsed and meta while_map.get(ip)
WhileStep(c, meta) ==
    IF c.raised # None THEN Raise(c.raised[1])
    ELSE IF meta = None THEN Raise(RuntimeError("Missing WHILE meta", ip + 1))
    ELSE IF eval_condition(cur_value(regs, cur_idx), c.n, c.op) THEN Goto(ip + 1)
    ELSE Goto(WhileFalseTarget(meta[1]))

\* if line.startswith(TOK_WHILE)
ExecWhile ==
    /\ At("while")
    /\ WhileStep(parse_condition(CurLine), DictGet(index.while_map, ip))
    /\ UNCHANGED <<regs, cur_idx, output_chunks>>

\* the entries of while_map whose end_ip is at
EndHits(while_map, at) == { i \in DOMAIN while_map : while_map[i][2].end_ip = at }

\* the loop over while_map.items(): the first wstart whose end_ip is at, or None
EndOwner(while_map, at) ==
    IF EndHits(while_map, at) = {} THEN None
    ELSE Some(while_map[CHOOSE i \in EndHits(while_map, at) :
                           \A j \in EndHits(while_map, at) : i <= j][1])

\* an end that stays where it is when no while owns it
EndTargetStay(owner_while_start, at) ==
    IF owner_while_start # None THEN owner_while_start[1] ELSE at

\* the target of a bare end line at ip at
EndTarget(owner_while_start, at) ==
    IF owner_while_start # None THEN owner_while_start[1] ELSE at + 1

\* if line == TOK_END
ExecEnd ==
    /\ At("end")
    /\ Goto(EndTarget(EndOwner(index.while_map, ip), ip))
    /\ UNCHANGED <<regs, cur_idx, output_chunks>>

\* rest = line[len(tok):].strip()
Rest(line, tok) == Strip(SubSeq(line, Len(tok) + 1, Len(line)))

\* the value set stores: 0 without operand, else the numeral (None: not one)
SetOperand(rest) == IF rest = << >> THEN Some(0) ELSE parse_number_or_none(rest)

\* the body of the set branch, v the value to store
SetStep(v) ==
    IF v = None
    THEN regs' = regs /\ Raise(SyntaxError("Invalid number for SET", ip + 1))
    ELSE regs' = set_cur_value(regs, cur_idx, v[1]) /\ Goto(ip + 1)

\* if line.startswith(TOK_SET)
ExecSet ==
    /\ At("set")
    /\ SetStep(SetOperand(Rest(CurLine, TOK_SET)))
    /\ UNCHANGED <<cur_idx, output_chunks>>


\* a reset that clears every register
ExecResetAll ==
    /\ At("reset")
    /\ regs' = [i \in DOMAIN regs |-> 0]
    /\ Goto(ip + 1)
    /\ UNCHANGED <<cur_idx, output_chunks>>

\* if line == TOK_RESET
ExecReset ==
    /\ At("reset")
    /\ regs' = set_cur_value(regs, cur_idx, 0)
    /\ Goto(ip + 1)
    /\ UNCHANGED <<cur_idx, output_chunks>>

\* delta of add and sub: 1 without operand, else the numeral (None: not one)
Delta(rest) == IF rest = << >> THEN Some(1) ELSE parse_number_or_none(rest)

\* the body of the add branch
AddStep(delta) ==
    IF delta = None
    THEN regs' = regs /\ Raise(SyntaxError("Invalid number for ADD", ip + 1))
    ELSE /\ regs' = set_cur_value(regs, cur_idx, cur_value(regs, cur_idx) + delta[1])
         /\ Goto(ip + 1)

\* if line.startswith(TOK_ADD)
ExecAdd ==
    /\ At("add")
    /\ AddStep(Delta(Rest(CurLine, TOK_ADD)))
    /\ UNCHANGED <<cur_idx, output_chunks>>

\* the body of the sub branch
SubStep(delta) ==
    IF delta = None
    THEN regs' = regs /\ Raise(SyntaxError("Invalid number for SUB", ip + 1))
    ELSE /\ regs' = set_cur_value(regs, cur_idx, cur_value(regs, cur_idx) - delta[1])
         /\ Goto(ip + 1)

\* if line.startswith(TOK_SUB)
ExecSub ==
    /\ At("sub")
    /\ SubStep(Delta(Rest(CurLine, TOK_SUB)))
    /\ UNCHANGED <<cur_idx, output_chunks>>

\* rhs of mul: the value of the register named, else the numeral (None: neither)
MulOperand(rest, rs) ==
    IF DictHas(REG_TO_IDX, rest) THEN Some(rs[RegIdx(rest)]) ELSE parse_number_or_none(rest)

\* the sum in the place of the product
MulResultSum(cur, rhs) == cur + rhs

\* self.cur_value() * rhs
MulResult(cur, rhs) == cur * rhs

\* the body of the mul branch, rest the operand text and rhs its value
MulStep(rest, rhs) ==
    IF rest = << >>
    THEN regs' = regs /\ Raise(SyntaxError("MUL missing operand", ip + 1))
    ELSE IF rhs = None
    THEN regs' = regs
         /\ Raise(SyntaxError("MUL operand must be a register token or number", ip + 1))
    ELSE /\ regs' = set_cur_value(regs, cur_idx, MulResult(cur_value(regs, cur_idx), rhs[1]))
         /\ Goto(ip + 1)

\* if line.startswith(TOK_MUL): the statements that follow it in the source, down
\* to their continue, are its body
ExecMul ==
    /\ At("mul")
    /\ MulStep(Rest(CurLine, TOK_MUL), MulOperand(Rest(CurLine, TOK_MUL), regs))
    /\ UNCHANGED <<cur_idx, output_chunks>>

\* raise SyntaxError("Unknown statement ...")
ExecUnknown ==
    /\ At("unknown")
    /\ Raise(SyntaxError("Unknown statement", ip + 1))
    /\ UNCHANGED <<regs, cur_idx, output_chunks>>

\* the loop of run ends: return "".join(self.output_chunks)
RunReturn ==
    /\ pc = "running"
    /\ ip >= Len(lines)
    /\ out' = Concat(output_chunks)
    /\ pc' = "returned"
    /\ UNCHANGED <<call_vars, lines, index, regs, cur_idx, output_chunks, ip, err, stdout, trace>>

\* main: sys.stdout.write(out); return 0
WriteOut ==
    /\ pc = "returned"
    /\ stdout' = Append(stdout, out)
    /\ pc' = "written"
    /\ UNCHANGED <<call_vars, lines, index, regs, cur_idx, output_chunks, ip, err, out, trace>>

Next ==
    \/ Construct
    \/ RunEnter
    \/ ExecEmpty
    \/ ExecRegister
    \/ ExecPrint
    \/ ExecIf
    \/ ExecElse
    \/ ExecWhile
    \/ ExecEnd
    \/ ExecSet
    \/ ExecReset
    \/ ExecAdd
    \/ ExecSub
    \/ ExecMul
    \/ ExecUnknown
    \/ RunReturn
    \/ WriteOut

Spec == Init /\ [][Next]_vars

----------------------------------------------------------------------------
(* The countdown programs alone *)

InitCountdown == InitWith(CountdownPrograms)

NextCountdown ==
    \/ Construct
    \/ RunEnter
    \/ ExecPrint
    \/ ExecWhile
    \/ ExecEnd
    \/ ExecSet
    \/ ExecSub
    \/ RunReturn
    \/ WriteOut

\* main has neither returned nor raised
Halted == pc \in {"written", "error"}

\* what every step changes: the place in main, or the lines dispatched so far
Advance ==
    /\ ~Halted
    /\ pc' \in {"constructed", "running", "returned", "written", "error"}
    /\ trace' \in {trace, Append(trace, ip)}

\* main runs one step after the other and never waits: until it has returned or
\* raised, it advances
CountdownSpec == InitCountdown /\ [][NextCountdown]_vars /\ WF_<<pc, trace>>(Advance)

----------------------------------------------------------------------------
(* The number parsers called on their own *)

\* longest string of the decimal alphabet
MaxDecimalLen == 3
\* longest string of the laugh alphabet after the negative prefixes
MaxLaughLen == 3

\* digits, signs, the underscore int() accepts between digits, whitespace and
\* a place token
DecimalAlphabet == {"0", "1", "9", "-", "+", "_", " ", T_I}

\* three of the place tokens (with all four, a string of MaxLaughLen + 1 tokens
\* is decoded to more than 32 bits), the second character of the five-bump
\* prefix and whitespace
LaughAlphabet == {T_I, T_X, T_M, T_FIVE_PREFIX[2], " "}

\* no negative prefix, one, two, and the first character of one
NegPrefixes == {<< >>, NEG_LAUGH, NEG_LAUGH \o NEG_LAUGH, <<NEG_LAUGH[1]>>}

LaughStrings ==
    { p \o b : p \in NegPrefixes, b \in SeqsUpTo(LaughAlphabet, MaxLaughLen) }

\* a zero-group token between at most two of the lowest place tokens
ZeroGroupStrings ==
    { a \o <<T_GROUP_ZERO>> \o b : a \in SeqsUpTo({T_I, T_X}, 1), b \in SeqsUpTo({T_I, T_X}, 1) }

ParseInputs ==
    SeqsUpTo(DecimalAlphabet, MaxDecimalLen) \cup LaughStrings \cup ZeroGroupStrings

\* no interpreter exists: the state of the module once imported
NoInterpreter ==
    /\ ~build_register_set.raised
    /\ lines = << >>
    /\ index = ProgramIndex(<< >>, << >>)
    /\ regs = << >>
    /\ cur_idx = 0
    /\ output_chunks = << >>
    /\ ip = 0
    /\ err = None
    /\ out = << >>
    /\ stdout = << >>
    /\ trace = << >>

InitParse ==
    /\ NoInterpreter
    /\ pc = "input"
    /\ arg \in ParseInputs
    /\ num = 0
    /\ ret = None
    /\ calls = << >>

\* the functions parse_number_or_none(s) enters: parse_arabic_int, and
\* parse_laugh_number when that returned None
NumberCalls(s) ==
    IF parse_arabic_int(s) # None THEN <<"parse_arabic_int">>
    ELSE <<"parse_arabic_int", "parse_laugh_number">>

\* parse_number_or_none(arg) is called and returns
CallNumber ==
    /\ pc = "input"
    /\ pc' = "number"
    /\ ret' = parse_number_or_none(arg)
    /\ calls' = <<"parse_number_or_none">> \o NumberCalls(arg)
    /\ UNCHANGED <<arg, num, interp_vars>>

\* parse_laugh_number(arg) is called and returns
CallLaugh ==
    /\ pc = "input"
    /\ pc' = "laugh"
    /\ ret' = parse_laugh_number(arg)
    /\ calls' = <<"parse_laugh_number">>
    /\ UNCHANGED <<arg, num, interp_vars>>

NextParse ==
    \/ CallNumber
    \/ CallLaugh

ParseSpec == InitParse /\ [][NextParse]_vars

----------------------------------------------------------------------------
(* parse_laugh_number called on the laugh-numbers written for an integer *)

\* largest integer a laugh-number is written for
MaxValue == 20000

\* the digit d, 1..9, at the place of tok: tok repeated d times, or the
\* five-bump prefix and tok repeated d - 5 times
DigitTokens(d, tok) ==
    IF d <= 5 THEN [i \in 1..d |-> tok] ELSE T_FIVE_PREFIX \o [i \in 1..(d - 5) |-> tok]

\* the digits of n, the lowest at 10**k, highest place first, zeros omitted
RECURSIVE LaughDigits(_, _)
LaughDigits(n, k) ==
    IF n = 0 THEN << >>
    ELSE LaughDigits(n \div 10, k + 1)
            \o (IF n % 10 = 0 THEN << >> ELSE DigitTokens(n % 10, token_for_power(k)))

\* the laugh-numbers written for n: its digits, and where its lowest group of
\* four digits is 0000, its digits followed by the zero-group token
Encodings(n) ==
    {LaughDigits(n, 0)}
        \cup (IF n % 10000 = 0 THEN {LaughDigits(n, 0) \o <<T_GROUP_ZERO>>} ELSE {})

InitEncode ==
    /\ NoInterpreter
    /\ pc = "input"
    /\ num \in 0..MaxValue
    /\ arg \in Encodings(num)
    /\ ret = None
    /\ calls = << >>

NextEncode == CallLaugh

EncodeSpec == InitEncode /\ [][NextEncode]_vars

----------------------------------------------------------------------------
(* is_register_token called on its own *)

\* one or two base symbols with or without the glue after them, and the names
GluedStrings ==
    { <<a>> \o g \o <<b>> \o h : a \in Range(REG_BASE), b \in Range(REG_BASE),
                                 g \in {<< >>, REGTOK_GLUE}, h \in {<< >>, REGTOK_GLUE} }

\* a string as it is, or between whitespace
Padded(S) == S \cup { <<" ">> \o s \o <<" ", " ">> : s \in S }

RegisterInputs ==
    Padded(GluedStrings \cup Range(NAMED_REGS) \cup { <<a>> \o REGTOK_GLUE : a \in Range(REG_BASE) })

InitRegister ==
    /\ NoInterpreter
    /\ pc = "input"
    /\ arg \in RegisterInputs
    /\ num = 0
    /\ ret = None
    /\ calls = << >>

\* is_register_token(arg) is called and returns
CallIsRegister ==
    /\ pc = "input"
    /\ pc' = "is_register_token"
    /\ ret' = Some(is_register_token(arg))
    /\ calls' = <<"is_register_token">>
    /\ UNCHANGED <<arg, num, interp_vars>>

NextRegister == CallIsRegister

RegisterSpec == InitRegister /\ [][NextRegister]_vars

----------------------------------------------------------------------------
(* Vocabulary of the properties *)

Last(s) == s[Len(s)]
IsPrefix(s, t) == Len(s) <= Len(t) /\ SubSeq(t, 1, Len(s)) = s

\* Interpreter(lines) raised: index_blocks failed, before any line was dispatched
IndexFailed == pc = "error" /\ trace = << >>
\* Interpreter(lines) returned
Indexed == pc \in {"constructed", "running", "returned", "written"} \/ (pc = "error" /\ trace # << >>)
\* run has returned
Terminal == pc \in {"returned", "written"}
\* the last step of run went from the line at Last(trace) to the line at ip
Stepped == pc = "running" /\ trace # << >>

\* the kinds of the cleaned line at the 1-based position k of the program p
IsIfLine(p, k) == StartsWith(clean_line(p[k]), TOK_IF)
IsWhileLine(p, k) == StartsWith(clean_line(p[k]), TOK_WHILE)
IsElseLine(p, k) == clean_line(p[k]) = TOK_ELSE
IsEndLine(p, k) == clean_line(p[k]) = TOK_END
IsOpener(p, k) == IsIfLine(p, k) \/ IsWhileLine(p, k)

\* block structure by counting, without a stack: an opener at i is open after
\* line k when no end line of i+1..k has closed it, that is when every stretch
\* i+1..j holds at most as many end lines as openers
Openers(p, a, b) == Cardinality({ j \in a..b : IsOpener(p, j) })
Enders(p, a, b) == Cardinality({ j \in a..b : IsEndLine(p, j) })
OpenAt(p, k) ==
    { i \in 1..k : IsOpener(p, i)
                   /\ \A j \in (i + 1)..k : Enders(p, i + 1, j) <= Openers(p, i + 1, j) }
Innermost(S) == CHOOSE i \in S : \A j \in S : j <= i

\* line k is an end line with nothing open, or an else line with nothing open or
\* with a while innermost
Misplaced(p, k) ==
    \/ IsEndLine(p, k) /\ OpenAt(p, k - 1) = {}
    \/ /\ IsElseLine(p, k)
       /\ \/ OpenAt(p, k - 1) = {}
          \/ IsWhileLine(p, Innermost(OpenAt(p, k - 1)))
FirstMisplaced(p) ==
    CHOOSE k \in DOMAIN p : Misplaced(p, k) /\ \A j \in 1..(k - 1) : ~Misplaced(p, j)
Balanced(p) == (\A k \in DOMAIN p : ~Misplaced(p, k)) /\ OpenAt(p, Len(p)) = {}

\* the syntax error the three cases call for
StructureError(p) ==
    IF \E k \in DOMAIN p : Misplaced(p, k)
    THEN IF IsEndLine(p, FirstMisplaced(p))
         THEN SyntaxError("END without block", FirstMisplaced(p))
         ELSE SyntaxError("ELSE without IF", FirstMisplaced(p))
    ELSE SyntaxError(IF IsIfLine(p, Innermost(OpenAt(p, Len(p))))
                     THEN "Unclosed block if" ELSE "Unclosed block while",
                     Innermost(OpenAt(p, Len(p))))

----------------------------------------------------------------------------
(* C1: the countdown *)

\* what one pass of the body appends after the number
SepChunks(sep) ==
    IF sep = << >> THEN << >>
    ELSE IF sep = <<TOK_OUT_SPACE>> THEN << <<" ">> >>
    ELSE << <<"\n">> >>

\* the fragments n, sep, n-1, sep, ..., 1, sep
RECURSIVE CountdownChunks(_, _)
CountdownChunks(n, sep) ==
    IF n = 0 THEN << >> ELSE <<Str(n)>> \o SepChunks(sep) \o CountdownChunks(n - 1, sep)

\* the lines dispatched: set, then n passes of while, output block, sub, end,
\* then the while line once more
RECURSIVE CountdownPasses(_, _)
CountdownPasses(n, sep) ==
    IF n = 0 THEN << >>
    ELSE <<1, 2, 5 + Len(sep), 6 + Len(sep)>> \o CountdownPasses(n - 1, sep)
CountdownTrace(n, sep) == <<0>> \o CountdownPasses(n, sep) \o <<1>>

C1_CountdownRun(n, sep) ==
    /\ IsPrefix(output_chunks, CountdownChunks(n, sep))
    /\ IsPrefix(trace, CountdownTrace(n, sep))
    /\ Stepped /\ Last(trace) = 1
         => ip = (IF regs[cur_idx] = 0 THEN Len(lines) ELSE 2)
    /\ Terminal
         => /\ ip = Len(lines)
            /\ regs[cur_idx] = 0
            /\ trace = CountdownTrace(n, sep)
            /\ output_chunks = CountdownChunks(n, sep)
    /\ pc = "written" => stdout = <<Concat(CountdownChunks(n, sep))>>
    /\ pc # "error"
    /\ pc = "running" /\ ip < Len(lines)
         => /\ Dispatch(CurLine) \in {"set", "while", "print", "sub", "end"}
            /\ Len(trace) < MaxSteps

C1_CountdownRuns ==
    \A n \in 0..MaxN, sep \in Separators :
        lines = Countdown(n, sep) => C1_CountdownRun(n, sep)

C1_CountdownDone == pc = "written" /\ ip = Len(lines)

\* C1: a program that sets the current register to N >= 0 and loops while it is
\* > 0, printing it and subtracting 1, emits N, N-1, ..., 1 in that order, leaves
\* the loop the first time the while line is evaluated with the register at 0, and
\* run eventually reaches ip = len(lines), after which the output is written
C1_Countdown == []C1_CountdownRuns /\ <>C1_CountdownDone

C1_Witness ==
    /\ lines = Countdown(3, <<TOK_OUT_SPACE>>)
    /\ pc = "written"
    /\ stdout = << <<"3", " ", "2", " ", "1", " ">> >>
    /\ trace = <<0, 1, 2, 6, 7, 1, 2, 6, 7, 1, 2, 6, 7, 1>>

----------------------------------------------------------------------------
(* C2: one branch of an if *)

\* the condition of the if line at 0-based i, on the current register
CondHolds(c) == eval_condition(regs[cur_idx], c.n, c.op)
HoldsAt(i) == CondHolds(parse_condition(clean_line(lines[i + 1])))

\* the last step, from the line at from to the line at to, and the block
\* if at i, else at e, end at d
C2_WithElse(from, to, i, e, d) ==
    /\ from = i => to = (IF HoldsAt(i) THEN i + 1 ELSE e + 1)
    /\ from = e => to = d + 1
    /\ to \in (i + 1)..e /\ from \notin (i + 1)..(e - 1) => from = i /\ HoldsAt(i)
    /\ to \in (e + 1)..d /\ from \notin (e + 1)..(d - 1) => from = i /\ ~HoldsAt(i)

\* the block if at i, end at d, without else
C2_WithoutElse(from, to, i, d) ==
    /\ from = i => to = (IF HoldsAt(i) THEN i + 1 ELSE d + 1)
    /\ to \in (i + 1)..d /\ from \notin (i + 1)..(d - 1) => from = i /\ HoldsAt(i)

C2_Block(from, to, i, meta) ==
    IF meta.else_ip # None
    THEN C2_WithElse(from, to, i, meta.else_ip[1], meta.end_ip)
    ELSE C2_WithoutElse(from, to, i, meta.end_ip)

\* C2: for every if block of the index, a step from the if line goes to the line
\* after it when the condition holds and to the line after the else line (after
\* the end line without else) when it does not; a step from the else line goes
\* to the line after the end line; the lines after the if line up to the else
\* line are entered only from the if line under a true condition, and the lines
\* after the else line up to the end line only from the if line under a false one
C2_OneBranch ==
    Stepped =>
        \A b \in DOMAIN index.if_map :
            C2_Block(Last(trace), ip, index.if_map[b][1], index.if_map[b][2])

\* add; if 0; sub; else; add; end, the condition false: the else-body alone ran
C2_Witness ==
    /\ lines = << TOK_ADD, TOK_IF \o Sp \o <<"0">>, TOK_SUB, TOK_ELSE, TOK_ADD, TOK_END >>
    /\ pc = "written"
    /\ trace = <<0, 1, 4, 5>>
    /\ regs[cur_idx] = 2

----------------------------------------------------------------------------
(* C3: the errors of index_blocks *)

\* C3: Interpreter(lines) fails in index_blocks exactly when the program has a
\* bare end line with nothing open, a bare else line with nothing open or a
\* while innermost, or a block open after the last line, and the error is the one
\* of that case, with the 1-based line of the misplaced line or of the
\* innermost open block; stated of the state Interpreter(lines) leaves
C3_IndexErrors ==
    pc = "constructed" \/ IndexFailed =>
        IF Balanced(lines)
        THEN pc = "constructed"
        ELSE IndexFailed /\ err = Some(StructureError(lines))

\* if; while; add: two blocks are open at the end, the while is innermost
C3_Witness ==
    /\ lines = << TOK_IF \o Sp \o <<"0">>, TOK_WHILE \o Sp \o <<"0">> \o Sp \o CMP_GT, TOK_ADD >>
    /\ IndexFailed
    /\ err = Some(SyntaxError("Unclosed block while", 2))

----------------------------------------------------------------------------
(* C4: the maps of index_blocks *)

\* the blocks of the index, as <<kind, start, end>>
IfBlocks == { <<"if", index.if_map[b][1], index.if_map[b][2].end_ip>> : b \in DOMAIN index.if_map }
WhileBlocks ==
    { <<"while", index.while_map[b][1], index.while_map[b][2].end_ip>> :
        b \in DOMAIN index.while_map }
Blocks == IfBlocks \cup WhileBlocks

C4_IfEntry(start, meta) ==
    /\ IsIfLine(lines, start + 1)
    /\ start < meta.end_ip
    /\ meta.end_ip < Len(lines)
    /\ IsEndLine(lines, meta.end_ip + 1)
    /\ meta.else_ip # None =>
         /\ start < meta.else_ip[1]
         /\ meta.else_ip[1] < meta.end_ip
         /\ IsElseLine(lines, meta.else_ip[1] + 1)

C4_WhileEntry(start, meta) ==
    /\ IsWhileLine(lines, start + 1)
    /\ meta.start_ip = start
    /\ start < meta.end_ip
    /\ meta.end_ip < Len(lines)
    /\ IsEndLine(lines, meta.end_ip + 1)

\* two blocks are apart or one lies within the other, and share no end line
C4_Nested(b1, b2) ==
    b1 # b2 =>
        /\ b1[3] # b2[3]
        /\ b1[2] < b2[2] => (b1[3] < b2[2] \/ b2[3] < b1[3])

\* C4: once index_blocks has accepted the program, every key of if_map is an if
\* line before its end_ip, a recorded else_ip lies strictly between them, every
\* key of while_map is a while line equal to its start_ip and before its end_ip,
\* every end_ip is a bare end line, and any two blocks are apart or nested, with
\* different end lines
C4_Maps ==
    Indexed =>
        /\ \A b \in DOMAIN index.if_map : C4_IfEntry(index.if_map[b][1], index.if_map[b][2])
        /\ \A b \in DOMAIN index.while_map :
               C4_WhileEntry(index.while_map[b][1], index.while_map[b][2])
        /\ \A b1 \in Blocks, b2 \in Blocks : C4_Nested(b1, b2)
        /\ Cardinality(Blocks) = Len(index.if_map) + Len(index.while_map)

\* while; if; else; end; end
C4_Witness ==
    /\ pc = "constructed"
    /\ index.while_map = << <<0, WhileMeta(0, 4)>> >>
    /\ index.if_map = << <<1, IfMeta(Some(2), 3)>> >>

----------------------------------------------------------------------------
(* C5: a second else *)

\* line k is a bare else line of an open if block that has an else line already,
\* and no line before k is misplaced
SecondElse(p, k) ==
    /\ IsElseLine(p, k)
    /\ \A j \in 1..(k - 1) : ~Misplaced(p, j)
    /\ OpenAt(p, k - 1) # {}
    /\ IsIfLine(p, Innermost(OpenAt(p, k - 1)))
    /\ \E j \in (Innermost(OpenAt(p, k - 1)) + 1)..(k - 1) :
           IsElseLine(p, j) /\ Innermost(OpenAt(p, j - 1)) = Innermost(OpenAt(p, k - 1))

\* C5: a program with a second bare else line in one open if block is rejected
\* by index_blocks
C5_SecondElseRejected ==
    pc # "start" /\ (\E k \in DOMAIN lines : SecondElse(lines, k)) => IndexFailed

----------------------------------------------------------------------------
(* C6: internal errors *)

\* C6: run raises none of "Missing IF meta", "Missing WHILE meta" and "ELSE meta
\* not found" on a program that index_blocks accepted
C6_NoInternalError == pc = "error" => err[1].type # "RuntimeError"

----------------------------------------------------------------------------
(* C7: the range of ip *)

\* C7: ip is within 0..len(lines) in every state; once run has returned ip is
\* len(lines), and with ip at len(lines) run returns
C7_IpRange ==
    /\ 0 <= ip
    /\ ip <= Len(lines)
    /\ Terminal => ip = Len(lines)
    /\ pc = "running" /\ ip = Len(lines) => ENABLED RunReturn

\* while 0 >; add; end, the condition false: the jump lands on len(lines)
C7_Witness ==
    /\ lines = << TOK_WHILE \o Sp \o <<"0">> \o Sp \o CMP_GT, TOK_ADD, TOK_END >>
    /\ pc = "running"
    /\ trace = <<0>>
    /\ ip = 3

----------------------------------------------------------------------------
(* C8: the output buffer *)

C8_Step ==
    /\ IsPrefix(output_chunks, output_chunks')
    /\ stdout' # stdout =>
         /\ pc = "returned"
         /\ ip = Len(lines)
         /\ stdout = << >>
         /\ stdout' = <<Concat(output_chunks)>>
    /\ pc' = "written" => Len(stdout') = 1
    /\ pc' = "error" => stdout' = << >>

\* C8: every step leaves the fragments of the buffer in place and at most adds
\* fragments at its end; standard output is written once, by the step after run
\* has returned with ip = len(lines), with the fragments joined in order; and
\* nothing is written when main stops on an error
C8_AppendOnly == [][C8_Step]_vars

\* the countdown from 2 with a space: four fragments, written as one string
C8_Witness ==
    /\ lines = Countdown(2, <<TOK_OUT_SPACE>>)
    /\ pc = "written"
    /\ output_chunks = << <<"2">>, <<" ">>, <<"1">>, <<" ">> >>
    /\ stdout = << <<"2", " ", "1", " ">> >>

----------------------------------------------------------------------------
(* C9: indexing comes first *)

\* C9: on a program index_blocks fails on, no line is ever dispatched, no
\* register exists, the buffer is empty and nothing is written, and main ends
\* with the error of index_blocks; a line is dispatched only under the index
\* of the whole program
C9_IndexFirst ==
    /\ index_blocks(lines).raised # None =>
         /\ pc \in {"start", "error"}
         /\ pc = "error" => err = index_blocks(lines).raised
         /\ trace = << >>
         /\ regs = << >>
         /\ output_chunks = << >>
         /\ stdout = << >>
    /\ trace # << >> =>
         index = ProgramIndex(index_blocks(lines).if_map, index_blocks(lines).while_map)

\* an output block of 72 and set 2, then a bare end line
C9_Witness ==
    /\ lines = << TOK_PRINT_START, <<"7", "2">>, TOK_PRINT_NUM_END, TOK_SET \o Sp \o <<"2">>,
                  TOK_END >>
    /\ pc = "error"
    /\ err = Some(SyntaxError("END without block", 5))
    /\ trace = << >>
    /\ output_chunks = << >>

----------------------------------------------------------------------------
(* C10: mul by a register *)

\* the mul statement at ip, r the index of the register its operand names
C10_MulBy(r) ==
    /\ pc' = "running"
    /\ ip' = ip + 1
    /\ cur_idx' = cur_idx
    /\ DOMAIN regs' = DOMAIN regs
    /\ regs'[cur_idx] = regs[cur_idx] * regs[r]
    /\ regs[r] = 0 => regs'[cur_idx] = 0
    /\ \A k \in DOMAIN regs \ {cur_idx} : regs'[k] = regs[k]

C10_Step ==
    At("mul") /\ DictHas(REG_TO_IDX, Rest(CurLine, TOK_MUL))
        => C10_MulBy(RegIdx(Rest(CurLine, TOK_MUL)))

----------------------------------------------------------------------------
(* C11: an output block in character mode *)

\* the ip of the first terminator line after the opener at ip, Len(lines) if
\* there is none
RECURSIVE TerminatorFrom(_)
TerminatorFrom(j) ==
    IF j >= Len(lines) THEN Len(lines)
    ELSE IF clean_line(lines[j + 1]) \in {TOK_PRINT_NUM_END, TOK_PRINT_CHAR_END} THEN j
    ELSE TerminatorFrom(j + 1)

Terminator == TerminatorFrom(ip + 1)
Terminated == Terminator < Len(lines)

\* the ips of the lines strictly between the opener and its terminator that
\* are items: the ones that are not empty once cleaned
ItemIps == { j \in (ip + 1)..(Terminator - 1) : clean_line(lines[j + 1]) # << >> }
ItemAt(j) == clean_line(lines[j + 1])

\* the j-th item of the block, from 1
RECURSIVE NthItemIp(_, _)
NthItemIp(from, n) ==
    IF from \in ItemIps
    THEN IF n = 1 THEN from ELSE NthItemIp(from + 1, n - 1)
    ELSE NthItemIp(from + 1, n)

Item(n) == ItemAt(NthItemIp(ip + 1, n))
ItemCount == Cardinality(ItemIps)

CharBlock == At("print") /\ Terminated /\ ItemAt(Terminator) = TOK_PRINT_CHAR_END
NumeralItems == \A n \in 1..ItemCount : parse_number_or_none(Item(n)) # None
ByteOf(n) == parse_number_or_none(Item(n))[1] % 256

C11_Numerals ==
    CharBlock /\ NumeralItems
        => /\ pc' = "running"
           /\ Len(output_chunks') = Len(output_chunks) + ItemCount
           /\ SubSeq(output_chunks', 1, Len(output_chunks)) = output_chunks
           /\ \A n \in 1..ItemCount :
                 /\ ByteOf(n) \in 0..255
                 /\ output_chunks'[Len(output_chunks) + n] = Chr(ByteOf(n))
                 /\ Len(output_chunks'[Len(output_chunks) + n]) = 1

C11_Register ==
    CharBlock /\ (\E n \in 1..ItemCount : is_register_token(Item(n)))
        => /\ pc' = "error"
           /\ err' # None
           /\ err'[1].type = "SyntaxError"

\* C11: an output block in character mode whose items are all numerals appends
\* one fragment of one character for each item, chr of the item's value modulo
\* 256, in the order of the items, and nothing else; one with an item that is a
\* register token raises a SyntaxError
C11_CharBlock == [][C11_Numerals /\ C11_Register]_vars

\* 300, then -3, in character mode: "," and chr(253) were written
C11_Witness ==
    /\ lines = << TOK_PRINT_START, <<"3", "0", "0">>, <<"-", "3">>, TOK_PRINT_CHAR_END >>
    /\ pc = "written"
    /\ output_chunks = << <<",">>, Chr(253) >>
    /\ stdout = << <<",", "chr253">> >>

\* a register token in character mode: the run ended in a SyntaxError
C11_WitnessRegister ==
    /\ lines = << TOK_PRINT_START, BAETEOL, TOK_PRINT_CHAR_END >>
    /\ pc = "error"
    /\ err = Some(SyntaxError("Invalid number in ASCII output (register not allowed)", 3))
    /\ output_chunks = << >>

----------------------------------------------------------------------------
(* C12: decimal numerals come first *)

\* a plain decimal string: digits, after at most one sign
PlainDigits(s) == s # << >> /\ \A i \in DOMAIN s : s[i] \in Digits
PlainDecimal(s) ==
    /\ s # << >>
    /\ PlainDigits(IF s[1] \in {"+", "-"} THEN Tail(s) ELSE s)

\* the value of the digit string d by the weights of its positions
RECURSIVE PlaceSum(_, _)
PlaceSum(d, i) ==
    IF i > Len(d) THEN 0 ELSE DigitVal(d[i]) * Pow10(Len(d) - i) + PlaceSum(d, i + 1)

PlainValue(s) ==
    IF s[1] = "-" THEN 0 - PlaceSum(Tail(s), 1)
    ELSE IF s[1] = "+" THEN PlaceSum(Tail(s), 1)
    ELSE PlaceSum(s, 1)

Called(f) == \E i \in DOMAIN calls : calls[i] = f

\* C12: parse_number_or_none of a plain decimal string is its decimal value and
\* parse_laugh_number is not called; parse_laugh_number is called only when
\* parse_arabic_int returned None, and parse_number_or_none returns None exactly
\* when both parsers do
C12_DecimalFirst ==
    pc = "number" =>
        /\ PlainDecimal(arg) => ret = Some(PlainValue(arg)) /\ ~Called("parse_laugh_number")
        /\ Called("parse_laugh_number") => parse_arabic_int(arg) = None
        /\ ret = None <=> parse_arabic_int(arg) = None /\ parse_laugh_number(arg) = None

\* -19 was parsed as a decimal numeral, and parse_laugh_number was not called
C12_Witness ==
    /\ pc = "number"
    /\ arg = <<"-", "1", "9">>
    /\ ret = Some(0 - 19)
    /\ calls = <<"parse_number_or_none", "parse_arabic_int">>

----------------------------------------------------------------------------
(* C13: every integer of 0..MaxValue has a laugh-number *)

\* C13: for the integer num, one of the laugh-numbers written for it is decoded
\* by parse_laugh_number to num
C13_Encodable ==
    pc = "input" => \E s \in Encodings(num) : parse_laugh_number(s) = Some(num)

\* ten thousand: its digits are decoded to 1, and with the zero-group token to
\* one hundred million
C13_TenThousand ==
    /\ num = 10000
    /\ pc = "laugh"
    /\ \/ arg = <<T_I>> /\ ret = Some(1)
       \/ arg = <<T_I, T_GROUP_ZERO>> /\ ret = Some(100000000)

----------------------------------------------------------------------------
(* C14: the negative prefix *)

\* arg is the negative prefix followed by a string, Negated that string
NegativeCall == pc = "laugh" /\ StartsWith(arg, NEG_LAUGH)
Negated == SubSeq(arg, Len(NEG_LAUGH) + 1, Len(arg))

\* the prefix in front of a string decoded to v is decoded to -v
C14_Negates ==
    parse_laugh_number(Negated) # None => ret = Some(0 - parse_laugh_number(Negated)[1])

\* the prefix in front of nothing, or of whitespace, is decoded to no value
C14_Alone == Strip(Negated) = << >> => ret = None

\* C14 as stated: the negative prefix followed by any string that
\* parse_laugh_number decodes to v is decoded to -v, and followed by nothing or
\* by whitespace to no value
C14_NegatesAny == NegativeCall => C14_Negates /\ C14_Alone

\* C14: the negative prefix followed by a string without that prefix that
\* parse_laugh_number decodes to v is decoded to -v; followed by a string that
\* has the prefix already, by nothing or by whitespace, it is decoded to no value
C14_NegatesUnsigned ==
    NegativeCall =>
        /\ ~StartsWith(Strip(Negated), NEG_LAUGH) => C14_Negates
        /\ StartsWith(Strip(Negated), NEG_LAUGH) => ret = None
        /\ C14_Alone

\* the prefix, whitespace and eleven: -11
C14_Witness ==
    /\ pc = "laugh"
    /\ arg = NEG_LAUGH \o <<" ", T_X, T_I>>
    /\ parse_laugh_number(Negated) = Some(11)
    /\ ret = Some(0 - 11)

----------------------------------------------------------------------------
(* C15: reset twice *)

\* the line before the one at ip was a reset, and it was the last line dispatched
AfterReset ==
    /\ ip > 0
    /\ trace # << >>
    /\ Last(trace) = ip - 1
    /\ Dispatch(clean_line(lines[ip])) = "reset"

C15_Step ==
    At("reset") =>
        /\ pc' = "running"
        /\ ip' = ip + 1
        /\ regs' = [regs EXCEPT ![cur_idx] = 0]
        /\ cur_idx' = cur_idx
        /\ output_chunks' = output_chunks
        /\ index' = index
        /\ AfterReset => regs' = regs

\* C15: a reset leaves 0 in the current register, every other register and the
\* current-register pointer as they were, and ip one further; a reset that
\* follows a reset changes nothing but ip
C15_ResetTwice == [][C15_Step]_vars

\* set 2; reset; reset: both resets ran, and the register selected holds 0
C15_Witness ==
    /\ lines = << TOK_SET \o Sp \o <<"2">>, TOK_RESET, TOK_RESET >>
    /\ pc = "written"
    /\ trace = <<0, 1, 2>>
    /\ regs[cur_idx] = 0

----------------------------------------------------------------------------
(* C16: the register table *)

\* the patterned token of the a-th and b-th base symbols, from 1
Patterned(a, b) == <<REG_BASE[a]>> \o REGTOK_GLUE \o <<REG_BASE[b]>> \o REGTOK_GLUE
BaseIdx == 1..Len(REG_BASE)

\* 58 distinct tokens, on the indices 0..57
C16_Size ==
    /\ Len(REG_TO_IDX) = 58
    /\ Cardinality(DictKeys(REG_TO_IDX)) = 58
    /\ { REG_TO_IDX[i][2] : i \in DOMAIN REG_TO_IDX } = 0..57
    /\ Len(IDX_TO_REG) = 58
    /\ DictKeys(IDX_TO_REG) = 0..57

\* the names at 0..8 in the order of their declaration, the patterned tokens at
\* 9..57 in row-major order of the base symbols
C16_Order ==
    /\ Len(NAMED_REGS) = 9
    /\ Len(REG_BASE) = 7
    /\ \A i \in DOMAIN NAMED_REGS : DictGet(REG_TO_IDX, NAMED_REGS[i]) = Some(i - 1)
    /\ \A a \in BaseIdx, b \in BaseIdx :
          DictGet(REG_TO_IDX, Patterned(a, b)) = Some(9 + Len(REG_BASE) * (a - 1) + (b - 1))

\* no patterned token is a name or another patterned token
C16_Distinct ==
    /\ \A a \in BaseIdx, b \in BaseIdx : Patterned(a, b) \notin Range(NAMED_REGS)
    /\ \A a \in BaseIdx, b \in BaseIdx, c \in BaseIdx, d \in BaseIdx :
          Patterned(a, b) = Patterned(c, d) => a = c /\ b = d

\* each map undoes the other
C16_Inverse ==
    /\ \A t \in DictKeys(REG_TO_IDX) : DictGet(IDX_TO_REG, DictGet(REG_TO_IDX, t)[1]) = Some(t)
    /\ \A i \in DictKeys(IDX_TO_REG) : DictGet(REG_TO_IDX, DictGet(IDX_TO_REG, i)[1]) = Some(i)

\* is_register_token holds of the 58 tokens, whitespace around them aside, and
\* of nothing else
C16_Tokens ==
    pc = "is_register_token" =>
        (ret = Some(TRUE) <=>
            \/ Strip(arg) \in Range(NAMED_REGS)
            \/ \E a \in BaseIdx, b \in BaseIdx : Strip(arg) = Patterned(a, b))

\* C16: build_register_set returns two maps that are inverse of each other,
\* between exactly 58 distinct tokens and the indices 0..57: the 9 names at 0..8
\* in the order of their declaration, the 49 patterned tokens at 9..57 in
\* row-major order of the 7 base symbols, no patterned token equal to a name or
\* to another patterned token
C16_RegisterTable == C16_Size /\ C16_Order /\ C16_Distinct /\ C16_Inverse /\ C16_Tokens

\* the last patterned token was looked up: it is a register token, at index 57
C16_Witness ==
    /\ pc = "is_register_token"
    /\ arg = Patterned(7, 7)
    /\ ret = Some(TRUE)
    /\ DictGet(REG_TO_IDX, arg) = Some(57)
    /\ DictGet(IDX_TO_REG, 57) = Some(arg)

----------------------------------------------------------------------------
(* C17: powers skipped between two digits *)

\* the number of zeros of n below its lowest digit that is not 0
RECURSIVE LowZeros(_)
LowZeros(n) == IF n % 10 # 0 THEN 0 ELSE 1 + LowZeros(n \div 10)

\* the numbers of powers skipped between two consecutive digits of n > 0 that
\* are not 0
RECURSIVE Skips(_)
Skips(n) ==
    IF n < 10 THEN {}
    ELSE IF n % 10 = 0 THEN Skips(n \div 10)
    ELSE {LowZeros(n \div 10)} \cup Skips(n \div 10)

\* parse_laugh_number was called on the digits of num, which has a digit in
\* its lowest group of four
DigitsCall ==
    /\ pc = "laugh"
    /\ num % 10000 # 0
    /\ arg = LaughDigits(num, 0)

\* C17: the digits of a number, zeros omitted and no zero-group token between
\* them, are accepted by parse_laugh_number and decoded to the number when at
\* most 3 powers are skipped between two consecutive digits
C17_SkipsAccepted == DigitsCall /\ Skips(num) \subseteq 0..3 => ret = Some(num)

\* the digit at 10**4 followed by the digit at 10**0 is decoded to 2
C17_TwoNotTenThousandOne ==
    /\ DigitsCall
    /\ num = 10001
    /\ Skips(num) = {3}
    /\ arg = <<T_I, T_I>>
    /\ ret = Some(2)

\* 11001, with 2 powers skipped, is refused
C17_TwoSkippedRefused ==
    /\ DigitsCall
    /\ num = 11001
    /\ Skips(num) = {0, 2}
    /\ arg = <<T_I, T_M, T_I>>
    /\ ret = None

----------------------------------------------------------------------------
(* C18: what a statement may write *)

\* the loop of run is about to dispatch the line at ip
Dispatching == pc = "running" /\ ip < Len(lines) /\ Len(trace) < MaxSteps
Kind == Dispatch(CurLine)

\* Interpreter.__init__ leaves the pointer on the first named register
C18_Start ==
    pc = "start" /\ pc' = "constructed"
        => /\ cur_idx' = 0
           /\ DictGet(IDX_TO_REG, cur_idx') = Some(NAMED_REGS[1])

\* the pointer moves only on a register-selection line
C18_Pointer ==
    pc \in {"constructed", "running", "returned"} /\ cur_idx' # cur_idx
        => Dispatching /\ Kind = "register"

\* set, reset, add, sub and mul write at most the register the pointer is on
C18_Write ==
    Dispatching /\ Kind \in {"set", "reset", "add", "sub", "mul"}
        => /\ cur_idx' = cur_idx
           /\ DOMAIN regs' = DOMAIN regs
           /\ \A k \in DOMAIN regs \ {cur_idx} : regs'[k] = regs[k]

\* if, else, while, end, empty lines and output blocks write no register
C18_Read ==
    Dispatching /\ Kind \in {"if", "else", "while", "end", "empty", "print"}
        => regs' = regs /\ cur_idx' = cur_idx

\* C18: the current-register pointer starts at the first named register and
\* changes only when a register-selection line is executed; set, reset, add, sub
\* and mul change at most the register the pointer is on and leave the pointer
\* as it is; if, else, while, end, empty lines and output blocks change neither
\* a register nor the pointer
C18_Frame == [][C18_Start /\ C18_Pointer /\ C18_Write /\ C18_Read]_vars

\* add; select the second register; sub 11: each wrote the register selected
C18_Witness ==
    /\ lines = << TOK_ADD, BAETEOL, TOK_SUB \o Sp \o <<T_X, T_I>> >>
    /\ pc = "written"
    /\ cur_idx = 1
    /\ regs[0] = 1
    /\ regs[1] = 0 - 11

----------------------------------------------------------------------------
(* C19: the lines of an output block *)

\* an opener without terminator raises a SyntaxError and appends nothing
C19_Unterminated ==
    At("print") /\ ~Terminated
        => /\ pc' = "error"
           /\ err' = Some(SyntaxError("Unterminated output block", ip + 1))
           /\ output_chunks' = output_chunks

\* with a terminator, the run goes on at the line after it or ends in an error
\* of the block; no line of the block is dispatched, so no register is selected
\* or written, and one fragment at most is appended for each item
C19_Consumed ==
    At("print") /\ Terminated
        => /\ pc' = "running" => ip' = Terminator + 1
           /\ pc' # "running" => pc' = "error" /\ err' # None /\ err'[1].line = Terminator + 1
           /\ trace' = Append(trace, ip)
           /\ regs' = regs
           /\ cur_idx' = cur_idx
           /\ IsPrefix(output_chunks, output_chunks')
           /\ Len(output_chunks') <= Len(output_chunks) + ItemCount
           /\ pc' = "running" => Len(output_chunks') = Len(output_chunks) + ItemCount

\* the lines of a block are never dispatched: the line at ip lies after the
\* terminator of every opener before it that was dispatched
C19_NeverExecuted ==
    Dispatching =>
        \A i \in DOMAIN trace :
            trace[i] < ip /\ clean_line(lines[trace[i] + 1]) = TOK_PRINT_START
                => TerminatorFrom(trace[i] + 1) < ip

C19_Step == C19_Unterminated /\ C19_Consumed /\ C19_NeverExecuted

\* C19: an output-block opener with no terminator line after it raises a
\* SyntaxError and appends nothing to the output buffer; with a terminator,
\* every line between the two is taken as an item and never dispatched as a
\* statement, and the run goes on at the line after the terminator
C19_Block == [][C19_Step]_vars

\* an opener, a register token as item, the terminator: the token was not
\* dispatched as a selection, the pointer is still on the first register, and
\* the value of the register it names was written
C19_Witness ==
    /\ lines = << TOK_PRINT_START, BAETEOL, TOK_PRINT_NUM_END >>
    /\ pc = "written"
    /\ trace = <<0>>
    /\ cur_idx = 0
    /\ stdout = << <<"0">> >>

----------------------------------------------------------------------------
(* C20: ip without while *)

\* no line of the program begins with the while token once cleaned
NoWhile == \A k \in DOMAIN lines : ~IsWhileLine(lines, k)

\* the step from ip to ip' goes from the end line of a while to its while line
BackEdge ==
    /\ Kind = "end"
    /\ IsWhileLine(lines, ip' + 1)
    /\ \E i \in DOMAIN index.while_map :
          /\ index.while_map[i][1] = ip'
          /\ index.while_map[i][2].end_ip = ip

\* without while, every step of run moves ip forward
C20_Forward == Dispatching /\ NoWhile /\ pc' = "running" => ip' > ip

\* without while, run has dispatched at most len(lines) lines
C20_Bounded == NoWhile => Len(trace') <= Len(lines)

\* ip moves backward by a back edge only
C20_OnlyBackEdge == Dispatching /\ pc' = "running" /\ ip' < ip => BackEdge

\* C20: in a program without a line that begins with while, every step of
\* Interpreter.run moves ip forward, so the run ends after at most len(lines)
\* steps; ip moves backward only from the end line of a while to its while line
C20_IpForward == [][C20_Forward /\ C20_Bounded /\ C20_OnlyBackEdge]_vars

\* add; if 0 with a branch on either side: the run went from the if to the
\* else branch and ended after 4 steps
C20_Witness ==
    /\ lines = << TOK_ADD, TOK_IF \o Sp \o <<"0">>, TOK_ADD, TOK_ELSE, TOK_SUB, TOK_END >>
    /\ NoWhile
    /\ pc = "written"
    /\ trace = <<0, 1, 4, 5>>

====
